---- MODULE Spec2Model ----
(***************************************************************************)
(* Verification model of the starknet-x402 payment facilitator:            *)
(*   - the Next.js facilitator endpoints  app/api/facilitator/verify and   *)
(*     app/api/facilitator/settle,                                         *)
(*   - the Express FacilitatorServer / StarknetVerifier / StarknetSettler, *)
(*   - the gateway middlewares (Next.js paymentMiddleware, Express         *)
(*     paymentMiddleware and localPaymentMiddleware),                      *)
(*   - the ledger (ERC20 token with balance and allowance) as environment. *)
(*                                                                         *)
(* Amounts are scaled to small naturals; addresses are short hex strings.  *)
(***************************************************************************)
EXTENDS Integers, Sequences, FiniteSets, TLC

\* ------------------------------------------------------------------ bounds
MaxCalls == 2
MaxNonce == 2
MaxTime == 1
Price == 2
MaxRestarts == 1
\* the client makes at most this many calls of payAndRequest or pay
MaxPayments == 2

\* -------------------------------------------------------- program constants
X402_VERSION == 1
STARKNET_SCHEME == "exact"
STARKNET_SEPOLIA == "starknet-sepolia"
STARKNET_MAINNET == "starknet-mainnet"
DefaultTimeoutSeconds == 300

\* ---------------------------------------------------------------- universe
Payer == "0xaa"
Recipient == "0xab"
Mallory == "0xcd"
TokenT == "0x47"
TokenU == "0x49"
Tokens == {TokenT, TokenU}
Instances == {1, 2}
CallId == 1..MaxCalls
FundLevels == {0, Price, 2 * Price}
NoSigner == ""

\* the facilitator's own account (NEXT_PUBLIC_FACILITATOR_ADDRESS)
Facilitator == "0xfa"

\* 2^128 on the scale of the model's amounts: the low limb of a u256 in
\* calldata holds values below it
U128 == 2 * Price

\* reachability of the RPC node for the two queries of a verification: the
\* payer's public key and the token contract (balance, allowance)
RpcStates == [key : BOOLEAN, balance : BOOLEAN]

RpcUp == [key |-> TRUE, balance |-> TRUE]

\* String.prototype.toLowerCase on the address spellings of the model
toLowerCase(s) ==
    CASE s = "0xAB" -> "0xab"
      [] s = "0xAA" -> "0xaa"
      [] OTHER -> s

\* ------------------------------------------------------------- signatures
\* The signed message: the fields hashed by computePaymentHash / signed by
\* the client; a signature is valid for a payload iff it was produced by the
\* key of payload.from over exactly the payload's current fields.
SignedFields(p) ==
    [from |-> p.from, to |-> p.to, token |-> p.token, amount |-> p.amount,
     nonce |-> p.nonce, deadline |-> p.deadline]

Sign(signer, p) == [signer |-> signer, msg |-> SignedFields(p)]

NoSignature == [signer |-> NoSigner,
                msg |-> [from |-> "", to |-> "", token |-> "", amount |-> 0,
                         nonce |-> 0, deadline |-> 0]]

\* ec.starkCurve.verify(signature, computePaymentHash(payload), publicKey(from))
verifySignature(p) ==
    /\ p.sig.signer # NoSigner
    /\ p.sig.signer = p.from
    /\ p.sig.msg = SignedFields(p)

\* ---------------------------------------------------------------- payloads
Unsigned(n) ==
    [enc |-> "ok", x402Version |-> X402_VERSION, scheme |-> STARKNET_SCHEME,
     network |-> STARKNET_SEPOLIA, from |-> Payer, to |-> Recipient,
     token |-> TokenT, amount |-> Price, nonce |-> n, deadline |-> MaxTime,
     sig |-> NoSignature]

WithSig(p) == [p EXCEPT !.sig = Sign(p.from, p)]

\* a payment created and signed by the payer for this merchant
Good(n) == WithSig(Unsigned(n))

\* header absent / header that is not base64 JSON
NoHeader == [Unsigned(0) EXCEPT !.enc = "none"]
BadHeader == [Unsigned(0) EXCEPT !.enc = "bad"]

\* fields changed after signing: the signature still covers Good(n)
TamperTo(n) == [Good(n) EXCEPT !.to = Mallory]
TamperAmount(n) == [Good(n) EXCEPT !.amount = Price - 1]
TamperToken(n) == [Good(n) EXCEPT !.token = TokenU]

\* a payment in the payer's name signed with somebody else's key
Forged(n) == [Unsigned(n) EXCEPT !.sig = Sign(Mallory, Unsigned(n))]

\* a payment of the payer whose deadline is the present second
Expiring(n) == WithSig([Unsigned(n) EXCEPT !.deadline = MaxTime - 1])

\* payments the payer really signed, but for other terms than this merchant's
SignedTo(n, r) == WithSig([Unsigned(n) EXCEPT !.to = r])
SignedAmount(n, a) == WithSig([Unsigned(n) EXCEPT !.amount = a])
SignedToken(n, t) == WithSig([Unsigned(n) EXCEPT !.token = t])

Headers ==
    {Good(n) : n \in 1..MaxNonce}
      \cup {SignedTo(1, Mallory), SignedAmount(1, Price - 1), SignedToken(1, TokenU)}
      \cup {SignedAmount(1, U128)}
      \cup {TamperTo(1), Forged(1), Unsigned(1), NoHeader, BadHeader}

\* the values a field of a payment header is taken from when verification
\* is exercised over every combination of deviations
Versions == {X402_VERSION, X402_VERSION + 1}
Schemes == {STARKNET_SCHEME, "upto"}
Networks == {STARKNET_SEPOLIA, STARKNET_MAINNET}
\* the merchant's address in lower case, in upper case and zero-padded, and
\* somebody else's address
RecipientSpellings == {Recipient, "0xAB", "0x0ab", Mallory}
Amounts == {Price - 1, Price, Price + 1}
Deadlines == 0..MaxTime
Signers == {Payer, Mallory, NoSigner}

Payload(version, scheme, network, to, token, amount, deadline, signer) ==
    LET p == [Unsigned(1) EXCEPT !.x402Version = version, !.scheme = scheme,
                                 !.network = network, !.to = to, !.token = token,
                                 !.amount = amount, !.deadline = deadline]
    IN [p EXCEPT !.sig = IF signer = NoSigner THEN NoSignature ELSE Sign(signer, p)]

VerifyHeaders ==
    {Payload(v, s, n, to, tok, amt, dl, signer) :
        v \in Versions, s \in Schemes, n \in Networks, to \in RecipientSpellings,
        tok \in Tokens, amt \in Amounts, dl \in Deadlines, signer \in Signers}

\* ------------------------------------------------------------ requirements
Requirements(payTo, asset, amount, network) ==
    [scheme |-> STARKNET_SCHEME, network |-> network,
     maxAmountRequired |-> amount, payTo |-> payTo, asset |-> asset,
     maxTimeoutSeconds |-> DefaultTimeoutSeconds]

\* the requirements the gateway builds for the protected route
RouteRequirements == Requirements(Recipient, TokenT, Price, STARKNET_SEPOLIA)

\* the payloads of the concurrency scenarios: two authorizations of one payer
ReplayHeaders == {Good(n) : n \in 1..MaxNonce}

ReqSet == {RouteRequirements,
           Requirements(Mallory, TokenT, Price, STARKNET_SEPOLIA)}

NoResult == [success |-> FALSE, error |-> "", txHash |-> 0, networkId |-> ""]

NoVerdict == [isValid |-> FALSE, invalidReason |-> "", status |-> 0]

\* ------------------------------------------------------------------ routes
\* request paths and route patterns are sequences of characters
ProtectedRoute == <<"/", "a">>

\* routes of the Next.js paymentMiddleware: looked up by the exact pathname
NextRoutes == {ProtectedRoute}

\* pricing keys of the Express paymentMiddleware: a path, a pattern with a
\* wildcard and a path with a dot in it
Pricing == {ProtectedRoute, <<"/", "b", "/", "*">>, <<"/", "a", ".">>}

\* the pathnames requested
Paths == {ProtectedRoute, <<"/", "a", "/">>, <<"/", "a", ".">>, <<"/", "b", "/", "a">>,
          <<"/", "b">>, <<"/">>}

\* matchPath: the pattern as the regular expression ^pattern$ in which every
\* * has become .* and every other character is left as it is, so that a
\* dot of the pattern matches any character
RECURSIVE matchPath(_, _)
matchPath(path, pattern) ==
    IF pattern = <<>> THEN path = <<>>
    ELSE IF Head(pattern) = "*"
      THEN \E k \in 0..Len(path) : matchPath(SubSeq(path, k + 1, Len(path)), Tail(pattern))
    ELSE /\ path # <<>>
         /\ (Head(pattern) = "." \/ Head(pattern) = Head(path))
         /\ matchPath(Tail(path), Tail(pattern))

\* findPriceForPath: whether a price is found for the path, by exact key or
\* by pattern
findPriceForPath(path, pricing) ==
    path \in pricing \/ \E pattern \in pricing : matchPath(path, pattern)

\* the X-Payment-Response header of a gateway response
NoPaymentResponse == [present |-> FALSE, txHash |-> 0, network |-> ""]

PaymentResponse(txHash, network) == [present |-> TRUE, txHash |-> txHash, network |-> network]

\* the facilitator a gateway is configured with: the Next.js routes or the
\* Express FacilitatorServer
Facilitators == {"next", "express"}

VARIABLES now, bal, allow, txs, calls, epoch, pp, cl

vars == <<now, bal, allow, txs, calls, epoch, pp, cl>>

IdleCall ==
    [pc |-> "idle", kind |-> "", hdr |-> NoHeader, req |-> RouteRequirements,
     inst |-> 1, epoch |-> 0, tx |-> 0, ver |-> NoVerdict, res |-> NoResult,
     status |-> 0,
     forwarded |-> FALSE, prior |-> {},
     at |-> 0, cfg |-> TRUE, rpc |-> RpcUp, reqVersion |-> X402_VERSION,
     seen |-> [bal |-> 0, allow |-> 0],
     path |-> ProtectedRoute, fac |-> "next", message |-> "", accepts |-> {},
     xpr |-> NoPaymentResponse, price |-> 0, settler |-> FALSE]

\* ------------------------------------------------ PaymentProcessor storage
\* the accounts whose payments are brought to the contract
Accounts == {Payer}

\* no call of the contract has returned yet
NoReturn == [fn |-> "", from |-> "", nonce |-> 0, ret |-> FALSE]

\* the contract's storage after the constructor (nonces, executed_payments),
\* with the return of its last call and the (payer, nonce) pairs for which
\* execute_payment has returned true
ContractDeployed ==
    [nonces |-> [a \in Accounts |-> 0], executed_payments |-> {},
     fee_basis_points |-> 0, accumulated_fees |-> [t \in Tokens |-> 0],
     last |-> NoReturn, paid |-> [a \in Accounts, n \in 0..MaxNonce |-> 0]]

\* ---------------------------------------------------------------- the client
\* nothing has been returned to the caller of the client
NothingReturned == [by |-> "", status |-> 0, success |-> FALSE, error |-> ""]

\* a client that has made no call: the function called (kind), the status of
\* the first response and of the response to the paid request, the payments
\* signed in all calls (signed), and for the call under way the number of
\* requests, of signatures and of paid requests, and what the caller got
ClientIdle ==
    [pc |-> "idle", kind |-> "", call |-> 0, status |-> 0, paid |-> 0, signed |-> <<>>,
     requests |-> 0, signedNow |-> 0, paidRequests |-> 0, result |-> NothingReturned]

\* the payer holds b of every token and has approved the facilitator for a
InitWith(balances, allowances) ==
    /\ now = 0
    /\ \E b \in balances, a \in allowances :
          /\ bal = [t \in Tokens |-> b]
          /\ allow = [t \in Tokens |-> a]
    /\ txs = <<>>
    /\ calls = [c \in CallId |-> IdleCall]
    /\ epoch = [i \in Instances |-> 0]
    /\ pp = ContractDeployed
    /\ cl = ClientIdle

Init == InitWith(FundLevels, {2 * Price})

InitInputs == InitWith(FundLevels, FundLevels)

\* =================================================================== ledger
\* ERC20 transfer_from(from, to, amount) invoked by the facilitator account:
\* it goes through iff the payer's balance and the payer's allowance to the
\* facilitator both cover the amount.
CanTransfer(b, a, token, amount) == b[token] >= amount /\ a[token] >= amount

\* the transactions submitted for the authorization (payer, nonce)
TxsOf(payer, nonce) ==
    {i \in 1..Len(txs) : txs[i].from = payer /\ txs[i].nonce = nonce}

Accepted(payer, nonce) == {i \in TxsOf(payer, nonce) : txs[i].status = "ACCEPTED"}

\* The ledger decides a received transaction.  It is accepted only if the
\* transfer goes through; it can be rejected for the payer's funds or for the
\* submitting account (transaction nonce, fee), whatever the payload.
ChainInclude(i, admit) ==
    /\ i \in 1..Len(txs)
    /\ txs[i].status = "RECEIVED"
    /\ IF admit /\ CanTransfer(bal, allow, txs[i].token, txs[i].amount)
         THEN /\ txs' = [txs EXCEPT ![i].status = "ACCEPTED"]
              /\ bal' = [bal EXCEPT ![txs[i].token] = @ - txs[i].amount]
              /\ allow' = [allow EXCEPT ![txs[i].token] = @ - txs[i].amount]
         ELSE /\ txs' = [txs EXCEPT ![i].status = "REJECTED"]
              /\ UNCHANGED <<bal, allow>>
    /\ UNCHANGED <<now, calls, epoch, pp, cl>>

Tick ==
    /\ now < MaxTime
    /\ now' = now + 1
    /\ UNCHANGED <<bal, allow, txs, calls, epoch, pp, cl>>

\* ========================================= Next.js facilitator: POST /verify
VerifyResult(ok, reason, http) == [isValid |-> ok, invalidReason |-> reason, status |-> http]

\* app/api/facilitator/verify/route.ts POST: the checks in the order of the code
VerifyRoute(h, q, t, b, a, facilitatorAddress, rpcOk) ==
    IF h.enc = "none" THEN VerifyResult(FALSE, "Missing required fields", 400)
    ELSE IF h.enc = "bad" THEN VerifyResult(FALSE, "Invalid payment header encoding", 200)
    ELSE IF h.scheme # q.scheme THEN VerifyResult(FALSE, "Scheme mismatch", 200)
    ELSE IF h.network # q.network THEN VerifyResult(FALSE, "Network mismatch", 200)
    ELSE IF toLowerCase(h.to) # toLowerCase(q.payTo) THEN VerifyResult(FALSE, "Recipient mismatch", 200)
    ELSE IF toLowerCase(h.token) # toLowerCase(q.asset) THEN VerifyResult(FALSE, "Asset mismatch", 200)
    ELSE IF h.amount < q.maxAmountRequired THEN VerifyResult(FALSE, "Insufficient amount", 200)
    ELSE IF h.deadline < t THEN VerifyResult(FALSE, "Payment deadline has passed", 200)
    ELSE IF h.sig.signer = NoSigner THEN VerifyResult(FALSE, "Missing or invalid signature", 200)
    \* signature verification is skipped here (route.ts 134-150)
    ELSE IF ~facilitatorAddress THEN VerifyResult(TRUE, "", 200)
    ELSE IF ~rpcOk THEN VerifyResult(FALSE, "On-chain verification failed", 200)
    ELSE IF b[h.token] < h.amount THEN VerifyResult(FALSE, "Insufficient balance", 200)
    ELSE IF a[h.token] < h.amount THEN VerifyResult(FALSE, "Insufficient allowance", 200)
    ELSE VerifyResult(TRUE, "", 200)

\* ========================================= Next.js facilitator: POST /settle
SettleResult(ok, err, tx, net) == [success |-> ok, error |-> err, txHash |-> tx, networkId |-> net]

\* the early returns of the settle route before any ledger access
SettlePrecheck(h, envOk) ==
    IF h.enc = "none" THEN "Missing required fields"
    ELSE IF h.enc = "bad" THEN "Invalid payment header encoding"
    ELSE IF h.network # STARKNET_SEPOLIA THEN "Unsupported network"
    ELSE IF ~envOk THEN "Facilitator not configured"
    ELSE ""

\* a call object built from the gateway's requirements instead of the payload
TransferCallOfRequirements(c, h, i, e) ==
    [call |-> c, from |-> h.from, to |-> calls[c].req.payTo, token |-> calls[c].req.asset,
     amount |-> calls[c].req.maxAmountRequired, nonce |-> h.nonce, status |-> "RECEIVED",
     inst |-> i, epoch |-> e, sender |-> Facilitator]

\* the call object handed to account.execute: transfer_from(from, to, amount)
\* on the contract payload.token, sent from the facilitator's account
TransferCall(c, h, i, e) ==
    [call |-> c, from |-> h.from, to |-> h.to, token |-> h.token,
     amount |-> h.amount, nonce |-> h.nonce, status |-> "RECEIVED",
     inst |-> i, epoch |-> e, sender |-> Facilitator]

\* ------------------------------------------------------------- parsePrice
\* JavaScript numbers are binary floating point with a mantissa of 53 bits;
\* the model keeps the arithmetic and scales the sizes down: a mantissa of
\* MantissaBits bits, UsdPerEth dollars to the ETH (2000 in the code) and
\* WeiPerEth base units to the ETH (1e18 in the code), so that a price of n
\* cents comes to exactly n base units.
MantissaBits == 8
UsdPerEth == 2
WeiPerEth == 200

\* the configured prices "$0.01" .. , named by their cents
MaxCents == 12
Prices == 1..MaxCents

RECURSIVE Pow2(_)
Pow2(k) == IF k = 0 THEN 1 ELSE 2 * Pow2(k - 1)

\* a / b rounded to the nearest integer, ties to even
RoundHalfEven(a, b) ==
    LET q == a \div b
        r == a % b
    IN IF 2 * r > b \/ (2 * r = b /\ q % 2 = 1) THEN q + 1 ELSE q

RECURSIVE ShiftUp(_, _)
ShiftUp(n, lim) == IF n >= lim THEN 0 ELSE 1 + ShiftUp(2 * n, lim)

RECURSIVE ShiftDown(_, _)
ShiftDown(n, lim) == IF n < lim THEN 0 ELSE 1 + ShiftDown(n, 2 * lim)

\* the number nearest to n / d: a mantissa of MantissaBits bits times a power
\* of two, kept as the fraction num / den
ToNumber(n, d) ==
    IF n = 0 THEN [num |-> 0, den |-> 1]
    ELSE IF n >= Pow2(MantissaBits - 1) * d
      THEN LET j == ShiftDown(n, Pow2(MantissaBits) * d)
           IN [num |-> RoundHalfEven(n, d * Pow2(j)) * Pow2(j), den |-> 1]
    ELSE LET k == ShiftUp(n, Pow2(MantissaBits - 1) * d)
         IN [num |-> RoundHalfEven(n * Pow2(k), d), den |-> Pow2(k)]

\* parseFloat of the decimal string of a price of so many cents
parseFloat(cents) == ToNumber(cents, 100)

\* parsePrice: BigInt(Math.floor(parseFloat(price) / 2000 * 1e18))
parsePrice(cents) ==
    LET dollars == parseFloat(cents)
        ethAmount == ToNumber(dollars.num, dollars.den * UsdPerEth)
        weiAmount == ToNumber(ethAmount.num * WeiPerEth, ethAmount.den)
    IN weiAmount.num \div weiAmount.den

\* a 402 answer without the requirements
PaymentRequiredBare(n, q) == [n EXCEPT !.pc = "done", !.status = 402]

\* the 402 answer listing the payment requirements: response402 of the
\* Next.js middleware, sendPaymentRequired of the Express one
PaymentRequired(n, q) == [n EXCEPT !.pc = "done", !.status = 402, !.accepts = {q}]

\* a gateway that forwards when the settlement failed
GatewayStatusAlwaysOk(kind, res) ==
    IF kind \in {"gateway", "xgateway"} THEN 200 ELSE 0

\* what the gateways make of a settle response
GatewayStatus(kind, res) ==
    IF kind \in {"gateway", "xgateway"} THEN (IF res.success THEN 200 ELSE 402) ELSE 0

\* a gateway that forwards a paid request without the X-Payment-Response header
GatewayAnswerWithoutHeader(n, res) ==
    [n EXCEPT
       !.status = GatewayStatus(n.kind, res),
       !.forwarded = (n.kind \in {"gateway", "xgateway"} /\ res.success),
       !.message = IF n.kind \in {"gateway", "xgateway"} /\ ~res.success THEN res.error ELSE "",
       !.accepts = IF n.kind = "xgateway" /\ ~res.success THEN {n.req} ELSE {}]

\* the response a gateway builds from the settle response res for call record
\* n: the Next.js middleware forwards with X-Payment-Response {txHash,
\* network: settlement.networkId} or answers 402 with message settlement.error;
\* the Express middleware forwards, with the header {txHash, network:
\* config.network} when a txHash came back, or answers 402 through
\* sendPaymentRequired with the error and the requirements
GatewayAnswer(n, res) ==
    [n EXCEPT
       !.status = GatewayStatus(n.kind, res),
       !.forwarded = (n.kind \in {"gateway", "xgateway"} /\ res.success),
       !.message = IF n.kind \in {"gateway", "xgateway"} /\ ~res.success THEN res.error ELSE "",
       !.accepts = IF n.kind = "xgateway" /\ ~res.success THEN {n.req} ELSE {},
       !.xpr = IF n.kind = "gateway" /\ res.success
                 THEN PaymentResponse(res.txHash, res.networkId)
               ELSE IF n.kind = "xgateway" /\ res.success /\ res.txHash # 0
                 THEN PaymentResponse(res.txHash, n.req.network)
               ELSE NoPaymentResponse]

Finish(c, res) ==
    calls' = [calls EXCEPT ![c] =
                GatewayAnswer([calls[c] EXCEPT !.pc = "done", !.res = res], res)]

\* a settle route that submits one transfer at a time
SettleSubmitOneAtATime(c, envs, rpcs) ==
    /\ calls[c].pc = "settle"
    /\ \E envOk \in envs, rpcOk \in rpcs :
         LET h == calls[c].hdr
             pre == SettlePrecheck(h, envOk)
         IN IF pre # ""
              THEN /\ Finish(c, SettleResult(FALSE, pre, 0, ""))
                   /\ UNCHANGED txs
              ELSE IF \/ ~rpcOk \/ h.amount >= U128
                      \/ ~CanTransfer(bal, allow, h.token, h.amount)
                      \/ \E o \in CallId : calls[o].pc = "waiting"
                THEN /\ Finish(c, SettleResult(FALSE, "Fee estimation failed", 0, h.network))
                     /\ UNCHANGED txs
                ELSE /\ txs' = Append(txs, TransferCall(c, h, calls[c].inst, calls[c].epoch))
                     /\ calls' = [calls EXCEPT ![c].pc = "waiting", ![c].tx = Len(txs) + 1]
    /\ UNCHANGED <<now, bal, allow, epoch, pp, cl>>

\* settle route up to and including account.execute
SettleSubmit(c, envs, rpcs) ==
    /\ calls[c].pc = "settle"
    /\ \E envOk \in envs, rpcOk \in rpcs :
         LET h == calls[c].hdr
             pre == SettlePrecheck(h, envOk)
         IN IF pre # ""
              THEN /\ Finish(c, SettleResult(FALSE, pre, 0, ""))
                   /\ UNCHANGED txs
              ELSE IF ~rpcOk \/ h.amount >= U128 \/ ~CanTransfer(bal, allow, h.token, h.amount)
                THEN \* estimateInvokeFee throws: node unreachable, amount not
                     \* a u256 of calldata [amount, '0'], or transfer_from reverts
                     /\ Finish(c, SettleResult(FALSE, "Fee estimation failed", 0, h.network))
                     /\ UNCHANGED txs
                ELSE /\ txs' = Append(txs, TransferCall(c, h, calls[c].inst, calls[c].epoch))
                     /\ calls' = [calls EXCEPT ![c].pc = "waiting", ![c].tx = Len(txs) + 1]
    /\ UNCHANGED <<now, bal, allow, epoch, pp, cl>>

\* provider.waitForTransaction (starknet.js) is taken by its contract: it
\* resolves once the transaction is in one of the successStates and throws
\* when the transaction is rejected or the wait runs out.
\* provider.waitForTransaction resolves: the transaction reached a success state
SettleConfirm(c) ==
    /\ calls[c].pc = "waiting"
    /\ txs[calls[c].tx].status = "ACCEPTED"
    /\ Finish(c, SettleResult(TRUE, "", calls[c].tx, calls[c].hdr.network))
    /\ UNCHANGED <<now, bal, allow, txs, epoch, pp, cl>>

\* the catch block answering success:true for a rejected transfer
SettleRejectedAsSuccess(c) ==
    /\ calls[c].pc = "waiting"
    /\ txs[calls[c].tx].status = "REJECTED"
    /\ Finish(c, SettleResult(TRUE, "", calls[c].tx, calls[c].hdr.network))
    /\ UNCHANGED <<now, bal, allow, txs, epoch, pp, cl>>

\* provider.waitForTransaction throws: the transaction was rejected
SettleRejected(c) ==
    /\ calls[c].pc = "waiting"
    /\ txs[calls[c].tx].status = "REJECTED"
    /\ Finish(c, SettleResult(FALSE, "Fee estimation failed: rejected", 0, calls[c].hdr.network))
    /\ UNCHANGED <<now, bal, allow, txs, epoch, pp, cl>>

\* a wait that gives up and answers success:true for the pending transfer
SettleTimeoutAsSuccess(c) ==
    /\ calls[c].pc = "waiting"
    /\ txs[calls[c].tx].status = "RECEIVED"
    /\ Finish(c, SettleResult(TRUE, "", calls[c].tx, calls[c].hdr.network))
    /\ UNCHANGED <<now, bal, allow, txs, epoch, pp, cl>>

\* provider.waitForTransaction throws: no final state observed in time
SettleTimeout(c) ==
    /\ calls[c].pc = "waiting"
    /\ txs[calls[c].tx].status = "RECEIVED"
    /\ Finish(c, SettleResult(FALSE, "Fee estimation failed: timeout", 0, calls[c].hdr.network))
    /\ UNCHANGED <<now, bal, allow, txs, epoch, pp, cl>>

DoneCalls == {d \in CallId : calls[d].pc = "done"}

CanStart(c) ==
    /\ calls[c].pc = "idle"
    /\ IF c = 1 THEN TRUE ELSE calls[c - 1].pc # "idle"

NewCall(c, kind, h, q, i) ==
    [IdleCall EXCEPT !.kind = kind, !.hdr = h, !.req = q, !.inst = i,
                     !.epoch = epoch[i], !.prior = DoneCalls]

\* a caller posts directly to /settle
StartSettle(c, h, q, i) ==
    /\ CanStart(c)
    /\ calls' = [calls EXCEPT ![c] = [NewCall(c, "settle", h, q, i) EXCEPT !.pc = "settle"]]
    /\ UNCHANGED <<now, bal, allow, txs, epoch, pp, cl>>

\* ================================================ Next.js paymentMiddleware
\* request to the protected route: everything up to the answer of /verify
GatewayStartFor(c, h, i, rpcs, q) ==
    /\ CanStart(c)
    /\ \E rpcOk \in rpcs :
         LET v == VerifyRoute(h, q, now, bal, allow, TRUE, rpcOk)
             n == NewCall(c, "gateway", h, q, i)
             answer(st) == [n EXCEPT !.pc = "done", !.status = st]
             checked(st) == [n EXCEPT !.pc = "done", !.status = st, !.ver = v,
                                      !.message = v.invalidReason]
         IN calls' = [calls EXCEPT ![c] =
               IF h.enc = "none" THEN PaymentRequired(n, q)
               ELSE IF h.enc = "bad" THEN answer(500)
               ELSE IF h.x402Version # X402_VERSION THEN answer(400)
               ELSE IF h.scheme # STARKNET_SCHEME THEN answer(400)
               ELSE IF ~v.isValid THEN checked(403)
               ELSE [n EXCEPT !.pc = "settle", !.ver = v]]
    /\ UNCHANGED <<now, bal, allow, txs, epoch, pp, cl>>

\* the middleware on the route whose requirements are RouteRequirements
GatewayStart(c, h, i, rpcs) == GatewayStartFor(c, h, i, rpcs, RouteRequirements)

\* routeConfig.network: absent (""), 'sepolia' or 'mainnet'
SimpleNetworks == {"", "sepolia", "mainnet"}

\* the network identifier the middleware puts into the requirements
NetworkOf(simpleNetwork) ==
    IF simpleNetwork = "mainnet" THEN STARKNET_MAINNET ELSE STARKNET_SEPOLIA

\* the payer's payment made out for a network
PaymentOn(network) ==
    Payload(X402_VERSION, STARKNET_SCHEME, network, Recipient, TokenT, Price, MaxTime, Payer)

\* the middleware on a route configured with a network
NetworkRequest(c, simpleNetwork, h, rpcs) ==
    GatewayStartFor(c, h, 1, rpcs,
                    Requirements(Recipient, TokenT, Price, NetworkOf(simpleNetwork)))

\* ================================================== localPaymentMiddleware
LocalStart(c, h) ==
    /\ CanStart(c)
    /\ LET n == NewCall(c, "local", h, RouteRequirements, 1)
       IN calls' = [calls EXCEPT ![c] =
             IF h.enc = "ok" /\ h.x402Version = X402_VERSION
               THEN [n EXCEPT !.pc = "done", !.status = 200, !.forwarded = TRUE]
               ELSE [n EXCEPT !.pc = "done", !.status = 402]]
    /\ UNCHANGED <<now, bal, allow, txs, epoch, pp, cl>>

\* ================================= Express facilitator (FacilitatorServer)
\* StarknetVerifier.isValidStarknetAddress: every address of the model is a
\* hex string of at most 64 digits; only the empty string is refused
isValidStarknetAddress(a) == a # ""

\* StarknetVerifier.verifyNonce: BigInt(nonce) >= 0, nothing else
verifyNonce(p) == p.nonce >= 0

\* StarknetVerifier.checkBalance: false when the RPC fails
checkBalance(p, b, rpcOk) == rpcOk /\ b[p.token] >= p.amount

\* StarknetVerifier.verifyExactPayment; verifySignature answers false when
\* getAccountPublicKey cannot reach the node
verifyExactPayment(p, q, t, b, rpc) ==
    IF ~isValidStarknetAddress(p.from) THEN VerifyResult(FALSE, "Invalid sender address", 200)
    ELSE IF ~isValidStarknetAddress(p.to) THEN VerifyResult(FALSE, "Invalid recipient address", 200)
    ELSE IF ~isValidStarknetAddress(p.token) THEN VerifyResult(FALSE, "Invalid token address", 200)
    ELSE IF toLowerCase(p.to) # toLowerCase(q.payTo)
      THEN VerifyResult(FALSE, "Recipient address does not match requirements", 200)
    ELSE IF toLowerCase(p.token) # toLowerCase(q.asset)
      THEN VerifyResult(FALSE, "Token address does not match requirements", 200)
    ELSE IF p.amount > q.maxAmountRequired THEN VerifyResult(FALSE, "Amount exceeds maximum", 200)
    ELSE IF p.amount <= 0 THEN VerifyResult(FALSE, "Amount must be greater than zero", 200)
    ELSE IF p.deadline <= t THEN VerifyResult(FALSE, "Payment deadline has expired", 200)
    ELSE IF p.deadline - t > q.maxTimeoutSeconds
      THEN VerifyResult(FALSE, "Payment deadline exceeds maximum timeout", 200)
    ELSE IF ~(rpc.key /\ verifySignature(p)) THEN VerifyResult(FALSE, "Invalid signature", 200)
    ELSE IF ~verifyNonce(p) THEN VerifyResult(FALSE, "Invalid or already used nonce", 200)
    ELSE IF ~checkBalance(p, b, rpc.balance) THEN VerifyResult(FALSE, "Insufficient token balance", 200)
    ELSE VerifyResult(TRUE, "", 200)

\* FacilitatorServer.verifyPayment
verifyPayment(p, q, t, b, rpc) ==
    IF p.scheme # q.scheme THEN VerifyResult(FALSE, "Scheme mismatch", 200)
    ELSE IF p.network # q.network THEN VerifyResult(FALSE, "Network mismatch", 200)
    ELSE IF p.scheme = STARKNET_SCHEME THEN verifyExactPayment(p, q, t, b, rpc)
    ELSE VerifyResult(FALSE, "Unsupported scheme", 200)

\* FacilitatorServer.handleVerify; version is request.x402Version, the
\* version number the caller put in the request body
handleVerify(h, q, t, b, rpc, version) ==
    IF h.enc = "none" THEN VerifyResult(FALSE, "Invalid request format", 200)
    ELSE IF h.enc = "bad" THEN VerifyResult(FALSE, "Invalid payment header encoding", 200)
    ELSE IF h.x402Version # version THEN VerifyResult(FALSE, "Version mismatch", 200)
    ELSE verifyPayment(h, q, t, b, rpc)

\* StarknetSettler.account: initializeAccount never assigns it
SettlerAccountInitialized == FALSE

\* StarknetSettler.waitForTransaction on the receipt the provider reports
\* until the wait is over: "" when it returns, else the error it throws
waitForTransaction(receipt) ==
    CASE receipt = "SUCCEEDED" -> ""
      [] receipt = "REVERTED" -> "Transaction reverted"
      [] OTHER -> "Transaction confirmation timeout"

\* StarknetSettler.settleExactPayment: without an account it throws before
\* executePayment; with one it reports the mock hash of executePayment once
\* waitForTransaction has returned
settleExactPayment(p, q, receipt) ==
    IF ~SettlerAccountInitialized
      THEN SettleResult(FALSE, "Facilitator account not initialized", 0, q.network)
    ELSE IF waitForTransaction(receipt) # ""
      THEN SettleResult(FALSE, waitForTransaction(receipt), 0, q.network)
    ELSE SettleResult(TRUE, "", -1, q.network)

\* a handleSettle that hands every decoded payload to the settler
handleSettleUnverified(h, q, t, b, rpc, receipt) ==
    LET answer(r, invoked) == [res |-> r, settler |-> invoked]
    IN IF h.enc = "none" THEN answer(SettleResult(FALSE, "Invalid request format", 0, ""), FALSE)
       ELSE IF h.enc = "bad"
         THEN answer(SettleResult(FALSE, "Invalid payment header encoding", 0, ""), FALSE)
       ELSE IF h.scheme = STARKNET_SCHEME THEN answer(settleExactPayment(h, q, receipt), TRUE)
       ELSE answer(SettleResult(FALSE, "Unsupported scheme", 0, ""), FALSE)

\* FacilitatorServer.handleSettle with settlePayment: the response, and
\* whether settler.settleExactPayment was invoked on the way
handleSettleSteps(h, q, t, b, rpc, receipt) ==
    LET answer(r, invoked) == [res |-> r, settler |-> invoked]
        v == verifyPayment(h, q, t, b, rpc)
    IN IF h.enc = "none" THEN answer(SettleResult(FALSE, "Invalid request format", 0, ""), FALSE)
       ELSE IF h.enc = "bad"
         THEN answer(SettleResult(FALSE, "Invalid payment header encoding", 0, ""), FALSE)
       ELSE IF ~v.isValid
         THEN answer(SettleResult(FALSE, IF v.invalidReason = ""
                                           THEN "Payment verification failed"
                                           ELSE v.invalidReason, 0, ""), FALSE)
       ELSE IF h.scheme = STARKNET_SCHEME THEN answer(settleExactPayment(h, q, receipt), TRUE)
       ELSE answer(SettleResult(FALSE, "Unsupported scheme", 0, ""), FALSE)

\* the response of FacilitatorServer.handleSettle
handleSettle(h, q, t, b, rpc, receipt) == handleSettleSteps(h, q, t, b, rpc, receipt).res

\* a caller posts to the Express facilitator's /settle
ExpressSettle(c, h, q) ==
    /\ CanStart(c)
    /\ \E rpc \in RpcStates, receipt \in {"SUCCEEDED", "REVERTED", "NONE"} :
          calls' = [calls EXCEPT ![c] =
             [NewCall(c, "xsettle", h, q, 1) EXCEPT
                 !.pc = "done", !.rpc = rpc,
                 !.ver = verifyPayment(h, q, now, bal, rpc),
                 !.res = handleSettleSteps(h, q, now, bal, rpc, receipt).res,
                 !.settler = handleSettleSteps(h, q, now, bal, rpc, receipt).settler]]
    /\ UNCHANGED <<now, bal, allow, txs, epoch, pp, cl>>

\* what a verification reads of the ledger: the payer's balance of the
\* payload's token and the payer's allowance to the facilitator
Seen(h) ==
    IF h.token \in Tokens
      THEN [bal |-> bal[h.token], allow |-> allow[h.token]]
      ELSE [bal |-> 0, allow |-> 0]

\* a caller posts to the Express facilitator's /verify
ExpressVerifyCall(c, h, q, rpcs, versions) ==
    /\ CanStart(c)
    /\ \E rpc \in rpcs, version \in versions :
          calls' = [calls EXCEPT ![c] =
             [NewCall(c, "xverify", h, q, 1) EXCEPT
                 !.pc = "done", !.at = now, !.rpc = rpc, !.reqVersion = version,
                 !.seen = Seen(h),
                 !.ver = handleVerify(h, q, now, bal, rpc, version)]]
    /\ UNCHANGED <<now, bal, allow, txs, epoch, pp, cl>>

ExpressVerify(c, h, q) == ExpressVerifyCall(c, h, q, RpcStates, {X402_VERSION})

\* a verification that also hands the transfer to the ledger
VerifyCallSubmitting(c, h, q, cfgs, rpcs) ==
    /\ CanStart(c)
    /\ \E facilitatorAddress \in cfgs, rpcOk \in rpcs :
          calls' = [calls EXCEPT ![c] =
             [NewCall(c, "verify", h, q, 1) EXCEPT
                 !.pc = "done", !.at = now, !.cfg = facilitatorAddress,
                 !.rpc = [key |-> TRUE, balance |-> rpcOk], !.seen = Seen(h),
                 !.ver = VerifyRoute(h, q, now, bal, allow, facilitatorAddress, rpcOk)]]
    /\ txs' = Append(txs, TransferCall(c, h, 1, epoch[1]))
    /\ UNCHANGED <<now, bal, allow, epoch, pp, cl>>

\* a caller posts to the Next.js facilitator's /verify; cfgs: whether
\* NEXT_PUBLIC_FACILITATOR_ADDRESS is set, rpcs: whether the node answers
VerifyCall(c, h, q, cfgs, rpcs) ==
    /\ CanStart(c)
    /\ \E facilitatorAddress \in cfgs, rpcOk \in rpcs :
          calls' = [calls EXCEPT ![c] =
             [NewCall(c, "verify", h, q, 1) EXCEPT
                 !.pc = "done", !.at = now, !.cfg = facilitatorAddress,
                 !.rpc = [key |-> TRUE, balance |-> rpcOk], !.seen = Seen(h),
                 !.ver = VerifyRoute(h, q, now, bal, allow, facilitatorAddress, rpcOk)]]
    /\ UNCHANGED <<now, bal, allow, txs, epoch, pp, cl>>

StartVerify(c, h, q) == VerifyCall(c, h, q, BOOLEAN, BOOLEAN)

\* ========================================= requests through the gateways
\* a request to a path without a price: handed to the route handler as it is
PassThrough(c, kind, path, h) ==
    /\ CanStart(c)
    /\ calls' = [calls EXCEPT ![c] =
          [NewCall(c, kind, h, RouteRequirements, 1) EXCEPT
              !.pc = "done", !.path = path, !.status = 200, !.forwarded = TRUE]]
    /\ UNCHANGED <<now, bal, allow, txs, epoch, pp, cl>>

\* Next.js paymentMiddleware: routes[pathname] decides whether the route is
\* protected
NextRequest(c, path, h, i, rpcs) ==
    IF path \in NextRoutes
      THEN GatewayStart(c, h, i, rpcs)
      ELSE PassThrough(c, "gateway", path, h)

\* Express paymentMiddleware on a path with a price: 402 without a header,
\* else verifyAndSettlePayment against the configured facilitator; with the
\* Next.js facilitator the settlement goes on in the settle route
XGatewayStartFor(c, path, h, fac, rpcs, q, price) ==
    /\ CanStart(c)
    /\ \E rpc \in rpcs, receipt \in {"SUCCEEDED", "REVERTED", "NONE"} :
         LET n == [NewCall(c, "xgateway", h, q, 1) EXCEPT
                      !.path = path, !.fac = fac, !.rpc = rpc, !.price = price]
             v == IF fac = "express"
                    THEN handleVerify(h, q, now, bal, rpc, X402_VERSION)
                    ELSE VerifyRoute(h, q, now, bal, allow, TRUE, rpc.balance)
             r == handleSettle(h, q, now, bal, rpc, receipt)
         IN calls' = [calls EXCEPT ![c] =
               IF h.enc = "none" THEN PaymentRequired(n, q)
               ELSE IF ~v.isValid
                 THEN [PaymentRequired(n, q) EXCEPT
                          !.ver = v,
                          !.message = IF v.invalidReason = ""
                                        THEN "Payment verification failed"
                                        ELSE v.invalidReason]
               ELSE IF fac = "express"
                 THEN GatewayAnswer([n EXCEPT !.pc = "done", !.ver = v, !.res = r], r)
               ELSE [n EXCEPT !.pc = "settle", !.ver = v]]
    /\ UNCHANGED <<now, bal, allow, txs, epoch, pp, cl>>

\* the handler for a route whose price comes to the amount Price
XGatewayStart(c, path, h, fac, rpcs) ==
    XGatewayStartFor(c, path, h, fac, rpcs, RouteRequirements, 0)

\* Express paymentMiddleware: findPriceForPath decides whether the path is
\* protected
XRequest(c, path, h, fac, rpcs) ==
    IF findPriceForPath(path, Pricing)
      THEN XGatewayStart(c, path, h, fac, rpcs)
      ELSE PassThrough(c, "xgateway", path, h)

\* the Express paymentMiddleware configured with pricing {ProtectedRoute:
\* price}: sendPaymentRequired and verifyAndSettlePayment build the
\* requirements with maxAmountRequired = parsePrice(price).toString()
XPricedRequest(c, price, h, fac, rpcs) ==
    XGatewayStartFor(c, ProtectedRoute, h, fac, rpcs,
                     Requirements(Recipient, TokenT, parsePrice(price), STARKNET_SEPOLIA),
                     price)

\* ============================================================ restart
\* a facilitator process is restarted: its handlers in flight are lost, the
\* ledger is not
Restart(i) ==
    /\ epoch[i] < MaxRestarts
    /\ epoch' = [epoch EXCEPT ![i] = @ + 1]
    /\ calls' = [c \in CallId |->
          IF calls[c].inst = i /\ calls[c].pc \in {"settle", "waiting"}
            THEN \* the gateway's request to /settle fails: the Next.js
                 \* middleware answers 500 from its catch, the Express one 402
                 [calls[c] EXCEPT
                    !.pc = "aborted",
                    !.status = IF calls[c].kind = "gateway" THEN 500
                               ELSE IF calls[c].kind = "xgateway" THEN 402 ELSE 0,
                    !.message = IF calls[c].kind \in {"gateway", "xgateway"}
                                  THEN "fetch failed" ELSE "",
                    !.accepts = IF calls[c].kind = "xgateway" THEN {calls[c].req} ELSE {}]
            ELSE calls[c]]
    /\ UNCHANGED <<now, bal, allow, txs, pp, cl>>

\* concurrent and repeated settlements of the payer's authorizations by one
\* facilitator process
Next ==
    \/ \E c \in CallId, h \in ReplayHeaders : StartSettle(c, h, RouteRequirements, 1)
    \/ \E c \in CallId : SettleSubmit(c, {TRUE}, {TRUE})
    \/ \E c \in CallId : SettleConfirm(c)
    \/ \E c \in CallId : SettleRejected(c)
    \/ \E c \in CallId : SettleTimeout(c)
    \/ \E i \in 1..Len(txs), admit \in BOOLEAN : ChainInclude(i, admit)

Spec == Init /\ [][Next]_vars

\* The settle handlers under the scheduling the runtime gives them: a handler
\* that can take its step up to account.execute takes it, and a handler whose
\* waitForTransaction has resolved or thrown for a decided transaction goes
\* on to answer.  The route passes waitForTransaction no retry bound and sets
\* no deadline of its own (route.ts 166-169), and the ledger owes no decision
\* within any time, so neither the wait running out nor the ledger's decision
\* is bound to happen.
SpecLive ==
    /\ Init
    /\ [][Next]_vars
    /\ \A c \in CallId :
          /\ WF_vars(SettleSubmit(c, {TRUE}, {TRUE}))
          /\ WF_vars(SettleConfirm(c))
          /\ WF_vars(SettleRejected(c))

\* ======================================================= PaymentProcessor
\* the arguments of verify_payment and execute_payment, but for signature_r
\* and signature_s, which the contract does not read
PaymentArgs ==
    [from : Accounts, to : {Recipient}, token : {TokenT}, amount : {Price},
     nonce : 0..MaxNonce, deadline : 0..MaxTime]

\* compute_payment_hash: a hash of the six payment fields
compute_payment_hash(a) ==
    [from |-> a.from, to |-> a.to, token |-> a.token, amount |-> a.amount,
     nonce |-> a.nonce, deadline |-> a.deadline]

\* InternalFunctions.verify_signature: 'Simplified for this example', true
verify_signature(a) == TRUE

\* InternalFunctions.transfer_tokens: 'Simplified for this example', true,
\* and no call to the token contract
transfer_tokens(token, from, to, amount) == TRUE

\* a verify_payment that does not compare the nonce
verify_paymentAnyNonce(st, t, a) ==
    IF t > a.deadline THEN FALSE
    ELSE verify_signature(a)

\* verify_payment at block timestamp t
verify_payment(st, t, a) ==
    IF t > a.deadline THEN FALSE
    ELSE IF a.nonce # st.nonces[a.from] THEN FALSE
    ELSE verify_signature(a)

Returned(fn, a, ret) == [fn |-> fn, from |-> a.from, nonce |-> a.nonce, ret |-> ret]

\* a transaction calling verify_payment
VerifyPaymentCall(a) ==
    /\ pp' = [pp EXCEPT !.last = Returned("verify_payment", a, verify_payment(pp, now, a))]
    /\ UNCHANGED <<now, bal, allow, txs, calls, epoch, cl>>

\* a transaction calling execute_payment
ExecutePaymentCall(a) ==
    /\ LET payment_hash == compute_payment_hash(a)
           fee_amount == (a.amount * pp.fee_basis_points) \div 10000
           net_amount == a.amount - fee_amount
           success == transfer_tokens(a.token, a.from, a.to, net_amount)
           fee_success == transfer_tokens(a.token, a.from, Facilitator, fee_amount)
       IN IF ~verify_payment(pp, now, a) \/ payment_hash \in pp.executed_payments
            THEN pp' = [pp EXCEPT !.last = Returned("execute_payment", a, FALSE)]
            ELSE pp' = [pp EXCEPT
                          !.executed_payments = @ \cup {payment_hash},
                          !.nonces[a.from] = a.nonce + 1,
                          !.accumulated_fees[a.token] =
                              IF success /\ fee_amount > 0 /\ fee_success
                                THEN @ + fee_amount ELSE @,
                          !.last = Returned("execute_payment", a, success),
                          !.paid[a.from, a.nonce] = IF success THEN @ + 1 ELSE @]
    /\ UNCHANGED <<now, bal, allow, txs, calls, epoch, cl>>

\* the contract deployed with or without a fee
InitContract ==
    /\ now = 0
    /\ bal = [t \in Tokens |-> 2 * Price]
    /\ allow = [t \in Tokens |-> 2 * Price]
    /\ txs = <<>>
    /\ calls = [c \in CallId |-> IdleCall]
    /\ epoch = [i \in Instances |-> 0]
    /\ \E fee \in {0, 5000} : pp = [ContractDeployed EXCEPT !.fee_basis_points = fee]
    /\ cl = ClientIdle

\* transactions calling the contract while blocks go by
NextContract ==
    \/ \E a \in PaymentArgs : VerifyPaymentCall(a)
    \/ \E a \in PaymentArgs : ExecutePaymentCall(a)
    \/ Tick

SpecContract == InitContract /\ [][NextContract]_vars

\* ================================================================ the client
\* the statuses a server answers and the accepts lists of its 402 answers
Statuses == {200, 204, 402, 500}
AcceptsLists ==
    {<<>>, <<RouteRequirements>>, <<[RouteRequirements EXCEPT !.scheme = "upto"]>>}

\* the values generateNonce can return, 32 random bytes each; two draws of
\* 32 random bytes are taken to differ
RandomNonces == 1..MaxPayments

Is2xx(status) == status >= 200 /\ status < 300

\* the payment signed for requirement q with the given nonce: signPayment of
\* the client library, createExactPayment of PaymentClient
SignedPayment(q, nonce, call) ==
    [from |-> Payer, to |-> q.payTo, token |-> q.asset, amount |-> q.maxAmountRequired,
     nonce |-> nonce, call |-> call]

\* PaymentClient.getNonce: 'For now, return 0'
getNonce(accountAddress) == 0

\* what the caller gets: a Response (payAndRequest), a PaymentResult (pay) or
\* an exception
Response(status) == [by |-> "response", status |-> status, success |-> Is2xx(status), error |-> ""]
PaymentResult(status, success, error) ==
    [by |-> "result", status |-> status, success |-> success, error |-> error]
Thrown(error) == [by |-> "throw", status |-> 0, success |-> FALSE, error |-> error]

Returns(c, result) == [c EXCEPT !.pc = "done", !.result = result]

\* the payment is signed and the request is made again with X-PAYMENT
PaysWith(c, payment) ==
    [c EXCEPT !.pc = "paid", !.signed = Append(@, payment), !.signedNow = @ + 1,
              !.requests = @ + 1, !.paidRequests = @ + 1]

\* payAndRequest after the response to its first request
payAndRequest(c, status, accepts, nonce) ==
    IF status # 402 THEN Returns(c, Response(status))
    ELSE IF accepts = <<>> THEN Returns(c, Thrown("No payment requirements provided"))
    ELSE PaysWith(c, SignedPayment(accepts[1], nonce, c.call))

\* PaymentClient.pay after the response to its first request
pay(c, status, accepts) ==
    IF ~(status = 402 \/ Is2xx(status))
      THEN Returns(c, PaymentResult(status, FALSE, "Request failed"))
    ELSE IF status = 200 THEN Returns(c, PaymentResult(status, TRUE, ""))
    ELSE IF status = 402
      THEN IF accepts = <<>>
             THEN Returns(c, PaymentResult(status, FALSE, "No payment options available"))
           ELSE IF accepts[1].scheme # STARKNET_SCHEME
             THEN Returns(c, PaymentResult(status, FALSE, "Failed to create payment"))
           ELSE PaysWith(c, SignedPayment(accepts[1], getNonce(Payer), c.call))
    ELSE Returns(c, PaymentResult(status, FALSE, "Unexpected status code"))

\* a client that answers a 402 to its paid request with another payment
paidResponsePayingAgain(c, status) ==
    IF status = 402
      THEN PaysWith([c EXCEPT !.paid = status],
                    SignedPayment(RouteRequirements, getNonce(Payer), c.call))
      ELSE Returns([c EXCEPT !.paid = status], Response(status))

\* the response to the paid request: payAndRequest returns it, pay returns
\* its data, or the failure axios throws for a status outside 2xx
paidResponse(c, status) ==
    LET d == [c EXCEPT !.paid = status]
    IN IF c.kind = "payAndRequest" THEN Returns(d, Response(status))
       ELSE IF Is2xx(status) THEN Returns(d, PaymentResult(status, TRUE, ""))
       ELSE Returns(d, PaymentResult(status, FALSE, "Request failed"))

\* the caller calls payAndRequest or pay, which sends the request without a
\* payment
ClientCall(kind) ==
    /\ cl.pc \in {"idle", "done"}
    /\ cl.call < MaxPayments
    /\ cl' = [cl EXCEPT !.pc = "initial", !.kind = kind, !.call = @ + 1, !.status = 0,
                        !.paid = 0, !.requests = 1, !.signedNow = 0, !.paidRequests = 0,
                        !.result = NothingReturned]
    /\ UNCHANGED <<now, bal, allow, txs, calls, epoch, pp>>

\* the server answers the first request
InitialResponse(status, accepts) ==
    /\ cl.pc = "initial"
    /\ LET c == [cl EXCEPT !.status = status]
           used == {cl.signed[k].nonce : k \in 1..Len(cl.signed)}
       IN IF cl.kind = "payAndRequest"
            THEN \E nonce \in RandomNonces \ used : cl' = payAndRequest(c, status, accepts, nonce)
            ELSE cl' = pay(c, status, accepts)
    /\ UNCHANGED <<now, bal, allow, txs, calls, epoch, pp>>

\* the server answers the paid request
PaidResponse(status) ==
    /\ cl.pc = "paid"
    /\ cl' = paidResponse(cl, status)
    /\ UNCHANGED <<now, bal, allow, txs, calls, epoch, pp>>

InitClient ==
    /\ now = 0
    /\ bal = [t \in Tokens |-> 2 * Price]
    /\ allow = [t \in Tokens |-> 2 * Price]
    /\ txs = <<>>
    /\ calls = [c \in CallId |-> IdleCall]
    /\ epoch = [i \in Instances |-> 0]
    /\ pp = ContractDeployed
    /\ cl = ClientIdle

\* calls of the client against a server that answers any status
NextClient ==
    \/ \E kind \in {"payAndRequest", "pay"} : ClientCall(kind)
    \/ \E status \in Statuses, accepts \in AcceptsLists : InitialResponse(status, accepts)
    \/ \E status \in Statuses : PaidResponse(status)

SpecClient == InitClient /\ [][NextClient]_vars

\* the same with several facilitator processes that can be restarted
NextProcs ==
    \/ \E c \in CallId, h \in ReplayHeaders, i \in Instances : StartSettle(c, h, RouteRequirements, i)
    \/ \E c \in CallId : SettleSubmit(c, {TRUE}, {TRUE})
    \/ \E c \in CallId : SettleConfirm(c)
    \/ \E c \in CallId : SettleRejected(c)
    \/ \E c \in CallId : SettleTimeout(c)
    \/ \E i \in 1..Len(txs), admit \in BOOLEAN : ChainInclude(i, admit)
    \/ \E i \in Instances : Restart(i)

SpecProcs == Init /\ [][NextProcs]_vars

\* one request at a time, over every header and every requirements record
NextInputs ==
    \/ \E h \in Headers, q \in ReqSet, i \in Instances : StartSettle(1, h, q, i)
    \/ \E h \in Headers, i \in Instances : GatewayStart(1, h, i, BOOLEAN)
    \/ \E h \in Headers : LocalStart(1, h)
    \/ \E h \in Headers, q \in ReqSet : StartVerify(1, h, q)
    \/ \E h \in Headers, q \in ReqSet : ExpressVerify(1, h, q)
    \/ \E h \in Headers, q \in ReqSet : ExpressSettle(1, h, q)
    \/ SettleSubmit(1, BOOLEAN, BOOLEAN)
    \/ SettleConfirm(1)
    \/ SettleRejected(1)
    \/ SettleTimeout(1)
    \/ \E i \in 1..Len(txs), admit \in BOOLEAN : ChainInclude(i, admit)
    \/ Tick

SpecInputs == InitInputs /\ [][NextInputs]_vars

\* a payment verified and settled while the clock runs towards and past its
\* deadline, through the gateway or posted to /settle
NextDeadline ==
    \/ \E h \in {Good(1), Expiring(1)} : GatewayStart(1, h, 1, {TRUE})
    \/ \E h \in {Good(1), Expiring(1)} : StartSettle(1, h, RouteRequirements, 1)
    \/ SettleSubmit(1, {TRUE}, {TRUE})
    \/ SettleConfirm(1)
    \/ SettleRejected(1)
    \/ SettleTimeout(1)
    \/ \E i \in 1..Len(txs), admit \in BOOLEAN : ChainInclude(i, admit)
    \/ Tick

SpecDeadline == InitInputs /\ [][NextDeadline]_vars

\* requests to routes configured for either network, paid with payments made
\* out for either network
NextNetwork ==
    \/ /\ CanStart(1)
       /\ \E simpleNetwork \in SimpleNetworks, h \in {NoHeader} \cup {PaymentOn(n) : n \in Networks} :
             NetworkRequest(1, simpleNetwork, h, BOOLEAN)
    \/ SettleSubmit(1, BOOLEAN, BOOLEAN)
    \/ SettleConfirm(1)
    \/ SettleRejected(1)
    \/ SettleTimeout(1)
    \/ \E i \in 1..Len(txs), admit \in BOOLEAN : ChainInclude(i, admit)

SpecNetwork == InitInputs /\ [][NextNetwork]_vars

\* settlements and verifications of the payer's authorizations interleaved
NextMixed ==
    \/ Next
    \/ \E c \in CallId, h \in ReplayHeaders :
          VerifyCall(c, h, RouteRequirements, {TRUE}, {TRUE})
    \/ \E c \in CallId, h \in ReplayHeaders :
          ExpressVerifyCall(c, h, RouteRequirements, {RpcUp}, {X402_VERSION})

SpecMixed == Init /\ [][NextMixed]_vars

\* one verification, over every combination of deviations of the header
NextVerify ==
    \/ /\ CanStart(1)
       /\ \E h \in VerifyHeaders : VerifyCall(1, h, RouteRequirements, BOOLEAN, BOOLEAN)
    \/ /\ CanStart(1)
       /\ \E h \in VerifyHeaders :
             ExpressVerifyCall(1, h, RouteRequirements, RpcStates, Versions)
    \/ Tick

SpecVerify == InitInputs /\ [][NextVerify]_vars

\* one request through a gateway, over every path and every header, with a
\* facilitator that can be restarted
NextGateway ==
    \/ /\ CanStart(1)
       /\ \E path \in Paths, h \in Headers : NextRequest(1, path, h, 1, BOOLEAN)
    \/ /\ CanStart(1)
       /\ \E path \in Paths, h \in Headers, fac \in Facilitators :
             XRequest(1, path, h, fac, RpcStates)
    \/ SettleSubmit(1, BOOLEAN, BOOLEAN)
    \/ SettleConfirm(1)
    \/ SettleRejected(1)
    \/ SettleTimeout(1)
    \/ \E i \in 1..Len(txs), admit \in BOOLEAN : ChainInclude(i, admit)
    \/ Restart(1)

SpecGateway == InitInputs /\ [][NextGateway]_vars

\* requests, without payment and with a payment of some amount, to the Express
\* gateway configured with each of the prices
NextPrice ==
    /\ CanStart(1)
    /\ \E price \in Prices, h \in {NoHeader} \cup {SignedAmount(1, a) : a \in Prices} :
          XPricedRequest(1, price, h, "express", {RpcUp})

SpecPrice == InitInputs /\ [][NextPrice]_vars

TypeOK ==
    /\ now \in 0..MaxTime
    /\ \A c \in CallId : calls[c].pc \in {"idle", "settle", "waiting", "done", "aborted"}

\* ================================================================== claims
SamePair(c, d) ==
    /\ calls[c].hdr.from = calls[d].hdr.from
    /\ calls[c].hdr.nonce = calls[d].hdr.nonce

\* two finished settle calls whose executions overlapped in time
Concurrent(c, d) ==
    /\ c # d
    /\ calls[c].pc = "done" /\ calls[d].pc = "done"
    /\ c \notin calls[d].prior /\ d \notin calls[c].prior

Settles == {c \in CallId : calls[c].kind \in {"settle", "gateway", "xsettle"}}

Refused(c) == ~calls[c].res.success /\ calls[c].res.error = "NonceReused"

\* C1: of concurrent settle calls carrying the identical signed payload at
\* most one returns success:true, and once one has succeeded every other one
\* returns success:false with reason NonceReused.
C1_ConcurrentSettleExactlyOne ==
    \A c \in Settles, d \in Settles :
        (Concurrent(c, d) /\ calls[c].hdr = calls[d].hdr /\ calls[c].res.success)
            => Refused(d)

\* C2: over any history of settle calls at most one transfer is ever accepted
\* by the ledger for a given (payer, nonce) pair.
C2_ConsumedAtMostOnce ==
    \A n \in 1..MaxNonce : Cardinality(Accepted(Payer, n)) <= 1

\* C3: verify returns isValid:true only if the payload's signature is valid
\* for payload.from over the signed fields.
C3_ValidOnlyIfSigned ==
    \A c \in CallId :
        (calls[c].kind \in {"verify", "gateway"} /\ calls[c].ver.isValid)
            => verifySignature(calls[c].hdr)

\* C4: a request to the protected route reaches the resource handler only if
\* settle returned success:true for the payment of its X-PAYMENT header within
\* that request.
C4_ForwardOnlyIfSettled ==
    \A c \in CallId :
        calls[c].forwarded =>
            /\ calls[c].ver.isValid
            /\ calls[c].res.success
            /\ calls[c].tx # 0

\* C5: settle submits no transfer and returns success:false when payload.to
\* differs from requirements.payTo, payload.token from requirements.asset, or
\* payload.amount is below requirements.maxAmountRequired.
Mismatch(h, q) ==
    /\ h.enc = "ok"
    /\ \/ h.to # q.payTo
       \/ h.token # q.asset
       \/ h.amount < q.maxAmountRequired

C5_SettleRechecksIdentity ==
    \A c \in CallId :
        (calls[c].kind = "settle" /\ Mismatch(calls[c].hdr, calls[c].req))
            => (calls[c].tx = 0 /\ ~calls[c].res.success)

\* C6: after a settle call for a payload has returned success:true with a
\* transaction reference, every later settle call with the same payload
\* returns success:false with NonceReused.
C6_SequentialReplayRefused ==
    \A d \in Settles : \A c \in calls[d].prior :
        (/\ calls[d].pc = "done"
         /\ calls[c].res.success /\ calls[c].res.txHash # 0
         /\ calls[c].hdr = calls[d].hdr)
            => Refused(d)

\* C7: a settle served by another facilitator instance, or by the same
\* instance after a restart, for a (payer, nonce) that an earlier settle has
\* consumed submits no transfer.
ElsewhereOrRestarted(c, d) ==
    \/ calls[c].inst # calls[d].inst
    \/ calls[c].epoch < calls[d].epoch

C7_ReplayRefusedAcrossProcesses ==
    \A d \in Settles : \A c \in calls[d].prior :
        (calls[c].res.success /\ SamePair(c, d) /\ ElsewhereOrRestarted(c, d))
            => calls[d].tx = 0

\* C8: after a settle call has ended on a finality timeout, its transfer
\* being broadcast, no later settle for that payload broadcasts a second
\* transfer.
TimedOut(c) == calls[c].pc = "done" /\ calls[c].res.error = "Fee estimation failed: timeout"

C8_NoRebroadcastAfterTimeout ==
    \A d \in Settles : \A c \in calls[d].prior :
        (TimedOut(c) /\ calls[c].hdr = calls[d].hdr) => calls[d].tx = 0

\* C9: when the submitted transfer is rejected by the ledger, settle returns
\* success:false, and a later settle with the same payload is not refused as
\* NonceReused: it is submitted to the ledger again unless the fee estimation
\* (the payer's funds) stops it.
RejectedCall(c) ==
    /\ calls[c].pc = "done"
    /\ calls[c].tx # 0
    /\ txs[calls[c].tx].status = "REJECTED"

C9_RejectedIsRetryable ==
    /\ \A c \in Settles : RejectedCall(c) => ~calls[c].res.success
    /\ \A d \in Settles : \A c \in calls[d].prior :
          (RejectedCall(c) /\ calls[c].hdr = calls[d].hdr /\ calls[d].pc = "done")
              => /\ ~Refused(d)
                 /\ calls[d].tx = 0 => calls[d].res.error = "Fee estimation failed"

\* a settle of the same payload that follows a rejected one has been
\* submitted to the ledger
C9_Witness ==
    \E d \in Settles : \E c \in calls[d].prior :
        /\ RejectedCall(c)
        /\ ~calls[c].res.success
        /\ calls[c].hdr = calls[d].hdr
        /\ calls[d].pc = "done"
        /\ calls[d].tx # 0

\* C10: settle returns success:true only once its own transfer is accepted by
\* the ledger, a successful result carries the reference of that transfer,
\* and a failed result carries none.
C10_SuccessOnlyAtFinality ==
    \A c \in CallId :
        (calls[c].kind = "settle" /\ calls[c].pc = "done") =>
            IF calls[c].res.success
              THEN /\ calls[c].tx # 0
                   /\ calls[c].res.txHash = calls[c].tx
                   /\ txs[calls[c].tx].call = c
                   /\ txs[calls[c].tx].status = "ACCEPTED"
              ELSE calls[c].res.txHash = 0

\* a settle call has succeeded and another one has failed after submitting
C10_Witness ==
    /\ \E c \in CallId :
          calls[c].kind = "settle" /\ calls[c].pc = "done" /\ calls[c].res.success
    /\ \E c \in CallId :
          /\ calls[c].kind = "settle" /\ calls[c].pc = "done"
          /\ ~calls[c].res.success /\ calls[c].tx # 0

\* ------------------------------------------------- claims on verification
\* the finished calls to a /verify endpoint
Verifies == {c \in CallId : calls[c].kind \in {"verify", "xverify"} /\ calls[c].pc = "done"}

\* two verify calls were given the same payload, requirements, time, ledger
\* state and environment
SameInputs(c, d) ==
    /\ calls[c].kind = calls[d].kind
    /\ calls[c].hdr = calls[d].hdr
    /\ calls[c].req = calls[d].req
    /\ calls[c].at = calls[d].at
    /\ calls[c].seen = calls[d].seen
    /\ calls[c].cfg = calls[d].cfg
    /\ calls[c].rpc = calls[d].rpc
    /\ calls[c].reqVersion = calls[d].reqVersion

\* a step that serves a verify call leaves the ledger, the submitted
\* transfers and every other call as they were
VerifyStepFrame ==
    \A c \in CallId :
        (calls[c].pc = "idle" /\ calls'[c].kind \in {"verify", "xverify"})
            => /\ txs' = txs
               /\ bal' = bal
               /\ allow' = allow
               /\ epoch' = epoch
               /\ \A d \in CallId \ {c} : calls'[d] = calls[d]

NamedCheck(reason) ==
    CASE reason = "Version mismatch" -> 1
      [] reason \in {"Scheme mismatch", "Unsupported scheme"} -> 2
      [] reason = "Network mismatch" -> 3
      [] reason \in {"Recipient mismatch",
                     "Recipient address does not match requirements"} -> 4
      [] reason \in {"Asset mismatch",
                     "Token address does not match requirements"} -> 5
      [] reason \in {"Insufficient amount", "Amount exceeds maximum",
                     "Amount must be greater than zero"} -> 6
      [] reason \in {"Payment deadline has passed", "Payment deadline has expired",
                     "Payment deadline exceeds maximum timeout"} -> 7
      [] reason = "Missing or invalid signature" -> 8
      [] reason = "Invalid signature" -> 9
      [] reason = "Invalid or already used nonce" -> 10
      [] reason \in {"Insufficient balance", "Insufficient token balance"} -> 11
      [] reason = "Insufficient allowance" -> 12
      [] OTHER -> 0

\* C12: once a settle has consumed (payer, nonce), every later verify of
\* that payload returns isValid:false with the nonce-reuse reason.
C12_VerifyRefusesConsumedNonce ==
    \A d \in Verifies : \A c \in calls[d].prior :
        (calls[c].kind = "settle" /\ calls[c].res.success /\ SamePair(c, d))
            => (~calls[d].ver.isValid /\ NamedCheck(calls[d].ver.invalidReason) = 10)

\* C13: verify returns isValid:true only if, at verification time, the
\* payer's balance of the payload's token covers the amount and so does the
\* payer's allowance to the facilitator.
C13_ValidOnlyIfFunded ==
    \A c \in Verifies :
        calls[c].ver.isValid =>
            /\ calls[c].seen.bal >= calls[c].hdr.amount
            /\ calls[c].seen.allow >= calls[c].hdr.amount

\* the account or contract that an address spelling denotes: hex digits are
\* case-insensitive and leading zeros do not count
Canonical(s) ==
    CASE s = "0xAB" -> "0xab"
      [] s = "0x0ab" -> "0xab"
      [] s = "0xAA" -> "0xaa"
      [] OTHER -> s

\* whether check k of the claimed order fails for verify call c
Fails(k, c) ==
    LET h == calls[c].hdr
        q == calls[c].req
    IN CASE k = 1 -> h.x402Version # X402_VERSION
         [] k = 2 -> h.scheme # q.scheme
         [] k = 3 -> h.network # q.network
         [] k = 4 -> Canonical(h.to) # Canonical(q.payTo)
         [] k = 5 -> Canonical(h.token) # Canonical(q.asset)
         [] k = 6 -> h.amount < q.maxAmountRequired
         [] k = 7 -> h.deadline < calls[c].at
         [] k = 8 -> h.sig.signer = NoSigner
         [] k = 9 -> ~verifySignature(h)
         [] k = 10 -> Accepted(h.from, h.nonce) # {}
         [] k = 11 -> calls[c].seen.bal < h.amount
         [] k = 12 -> calls[c].seen.allow < h.amount

Checks == 1..12

\* the earliest failing check of call c, 0 when every check passes
FirstFailing(c) ==
    IF \E k \in Checks : Fails(k, c)
      THEN CHOOSE k \in Checks : Fails(k, c) /\ \A j \in 1..(k - 1) : ~Fails(j, c)
      ELSE 0

\* the verifications of a decoded header in a request of the supported
\* version, by a configured facilitator whose ledger reads went through
Evaluated ==
    {c \in Verifies : /\ calls[c].hdr.enc = "ok"
                      /\ calls[c].reqVersion = X402_VERSION
                      /\ calls[c].cfg
                      /\ calls[c].rpc = RpcUp}

\* recipient and asset are spelled in the payload as in the requirements
SameSpelling(c) ==
    /\ calls[c].hdr.to = calls[c].req.payTo
    /\ calls[c].hdr.token = calls[c].req.asset

\* every check other than k passes for call c
OthersPass(k, c) == \A j \in Checks \ {k} : ~Fails(j, c)

\* C14: verify evaluates the checks in the order version, scheme, network,
\* recipient, asset, amount, deadline, signature presence, signature
\* validity, nonce, balance, allowance, and a payload failing several of
\* them is rejected with the reason of the earliest one.
C14_EarliestFailingReported ==
    \A c \in Evaluated :
        /\ FirstFailing(c) # 0 => ~calls[c].ver.isValid
        /\ ~calls[c].ver.isValid =>
              NamedCheck(calls[c].ver.invalidReason) = FirstFailing(c)

\* C15: verify returns isValid:false with the version-mismatch reason
\* whenever the payload's version differs from the supported version,
\* whatever the other fields are.
C15_VersionMismatchRejected ==
    \A c \in Verifies :
        (calls[c].hdr.enc = "ok" /\ calls[c].hdr.x402Version # X402_VERSION)
            => (~calls[c].ver.isValid /\ NamedCheck(calls[c].ver.invalidReason) = 1)

\* C16: with every other check passing, verify rejects with the
\* insufficient-amount reason exactly when the payload's amount is below
\* maxAmountRequired: maxAmountRequired - 1 is rejected, maxAmountRequired
\* and anything larger is accepted.
C16_AmountBoundary ==
    \A c \in Evaluated :
        (OthersPass(6, c) /\ SameSpelling(c)) =>
            IF calls[c].hdr.amount < calls[c].req.maxAmountRequired
              THEN ~calls[c].ver.isValid /\ NamedCheck(calls[c].ver.invalidReason) = 6
              ELSE calls[c].ver.isValid

\* C17: with every other check passing, verify accepts a payload whose
\* deadline equals the current time and rejects, as expired, one whose
\* deadline is the current time minus one.
C17_DeadlineInclusive ==
    \A c \in Evaluated :
        (OthersPass(7, c) /\ SameSpelling(c)) =>
            /\ calls[c].hdr.deadline = calls[c].at => calls[c].ver.isValid
            /\ calls[c].hdr.deadline = calls[c].at - 1 =>
                  (~calls[c].ver.isValid /\ NamedCheck(calls[c].ver.invalidReason) = 7)

\* C18: recipient and asset are compared as canonical identifiers: with
\* every other check passing, spellings of one address that differ in hex
\* case or leading zeros are accepted, and any other difference is rejected
\* as a recipient or asset mismatch.
C18_CanonicalAddressComparison ==
    \A c \in Evaluated :
        (\A j \in Checks \ {4, 5} : ~Fails(j, c)) =>
            IF Fails(4, c) THEN ~calls[c].ver.isValid /\ NamedCheck(calls[c].ver.invalidReason) = 4
            ELSE IF Fails(5, c) THEN ~calls[c].ver.isValid /\ NamedCheck(calls[c].ver.invalidReason) = 5
            ELSE calls[c].ver.isValid

\* transfer i is accepted by the ledger in this step
AcceptedNow(i) == txs[i].status = "RECEIVED" /\ txs'[i].status = "ACCEPTED"

\* the ledger step that accepts a transfer takes the payload's amount of the
\* payload's token, and of no other token, from the payer
MovesPayloadAmount ==
    \A i \in 1..Len(txs) :
        AcceptedNow(i) =>
            LET h == calls[txs[i].call].hdr
            IN /\ bal' = [bal EXCEPT ![h.token] = @ - h.amount]
               /\ allow' = [allow EXCEPT ![h.token] = @ - h.amount]

C20_AdapterFailureNotAValidationReason ==
    \A c \in Verifies :
        ~calls[c].ver.isValid =>
            LET k == NamedCheck(calls[c].ver.invalidReason)
            IN /\ k \in {11, 12} => (calls[c].rpc.balance /\ Fails(k, c))
               /\ k = 9 => (calls[c].rpc.key /\ Fails(9, c))

\* ------------------------------------------------------------ gateways
\* the requests a gateway has answered
Answered ==
    {c \in CallId : calls[c].kind \in {"gateway", "xgateway"} /\ calls[c].pc \in {"done", "aborted"}}

\* the gateway of call c sent a request to the facilitator's verify endpoint
VerifyCalled(c) == calls[c].ver # NoVerdict

\* the gateway of call c sent a request to the facilitator's settle endpoint
SettleCalled(c) ==
    \/ calls[c].res # NoResult
    \/ calls[c].tx # 0
    \/ calls[c].pc \in {"settle", "waiting", "aborted"}

\* the ledger has accepted the transfer submitted for call c
Transferred(c) == calls[c].tx # 0 /\ txs[calls[c].tx].status = "ACCEPTED"

\* C21: a request that the gateway answers with 500 has changed no payment
\* state: no transfer was made for it.
C21_InternalErrorChangesNoState ==
    \A c \in Answered : calls[c].status = 500 => ~Transferred(c)

\* C22: when verify answers isValid:false the gateway answers 403 with the
\* verification reason, does not forward the request and never calls settle.
C22_InvalidAnswers403 ==
    \A c \in Answered :
        (VerifyCalled(c) /\ ~calls[c].ver.isValid) =>
            /\ calls[c].status = 403
            /\ calls[c].message = calls[c].ver.invalidReason
            /\ ~calls[c].forwarded
            /\ ~SettleCalled(c)

\* the facilitator accepted the payment of call c at verify and then
\* answered its settle request with success:false
SettleFailed(c) ==
    /\ calls[c].pc = "done"
    /\ calls[c].ver.isValid
    /\ calls[c].res # NoResult
    /\ ~calls[c].res.success

\* C23: when verify succeeded and settle answers success:false, the gateway
\* answers 402 with the settlement error and does not forward the request.
C23_SettleFailureAnswers402 ==
    \A c \in Answered :
        SettleFailed(c) =>
            /\ calls[c].status = 402
            /\ calls[c].message = calls[c].res.error
            /\ ~calls[c].forwarded
            /\ ~calls[c].xpr.present

\* a gateway has answered 402 with the error of a settlement that failed
\* after its transfer was submitted
C23_Witness ==
    \E c \in Answered :
        /\ SettleFailed(c)
        /\ calls[c].tx # 0
        /\ calls[c].status = 402
        /\ calls[c].message = calls[c].res.error

\* a pattern read as a path in which only "*" is special
RECURSIVE GlobMatch(_, _)
GlobMatch(path, pattern) ==
    IF pattern = <<>> THEN path = <<>>
    ELSE IF Head(pattern) = "*"
      THEN \E k \in 0..Len(path) : GlobMatch(SubSeq(path, k + 1, Len(path)), Tail(pattern))
    ELSE /\ path # <<>>
         /\ Head(pattern) = Head(path)
         /\ GlobMatch(Tail(path), Tail(pattern))

\* the path requested by call c is one the gateway was configured to protect
Configured(c) ==
    IF calls[c].kind = "gateway" THEN calls[c].path \in NextRoutes
    ELSE \E pattern \in Pricing : GlobMatch(calls[c].path, pattern)

\* C24: a request to a protected route whose X-PAYMENT header is not the
\* base64 of a JSON PaymentPayload is answered with 400 without any call to
\* verify or settle.
C24_MalformedHeaderAnswers400 ==
    \A c \in Answered :
        (Configured(c) /\ calls[c].hdr.enc = "bad") =>
            /\ calls[c].status = 400
            /\ ~VerifyCalled(c)
            /\ ~SettleCalled(c)

\* the gateway forwarded call c after the facilitator settled its payment
Paid(c) == calls[c].forwarded /\ calls[c].res # NoResult

\* C25: every response forwarded for a paid request carries the
\* X-Payment-Response header, and the header names the transaction and the
\* network that the settle call of that request returned.
C25_PaidResponseCarriesSettlement ==
    \A c \in Answered :
        Paid(c) =>
            /\ calls[c].res.success
            /\ calls[c].xpr.present
            /\ calls[c].xpr.txHash = calls[c].res.txHash
            /\ calls[c].xpr.txHash = calls[c].tx
            /\ calls[c].xpr.network = calls[c].res.networkId

\* the Express gateway has forwarded a paid request with the header naming
\* the transfer the ledger accepted for it
C25_Witness ==
    \E c \in Answered :
        /\ Paid(c)
        /\ calls[c].kind = "xgateway"
        /\ Transferred(c)
        /\ calls[c].xpr = PaymentResponse(calls[c].tx, STARKNET_SEPOLIA)

\* C26: a request to a route that is not configured as protected is forwarded
\* unchanged, with no call to the facilitator.
C26_UnprotectedForwarded ==
    \A c \in Answered :
        ~Configured(c) =>
            /\ calls[c].forwarded
            /\ calls[c].status = 200
            /\ ~calls[c].xpr.present
            /\ ~VerifyCalled(c)
            /\ ~SettleCalled(c)

Overlaps(o, d) ==
    /\ o # d
    /\ calls[o].pc # "idle"
    /\ o \notin calls[d].prior
    /\ ~SamePair(o, d)

\* what the first n transactions of the ledger have moved out of the payer's
\* funds in token for calls overlapping d
RECURSIVE TakenFrom(_, _, _)
TakenFrom(d, token, n) ==
    IF n = 0 THEN 0
    ELSE TakenFrom(d, token, n - 1)
           + IF /\ txs[n].status = "ACCEPTED"
                /\ txs[n].token = token
                /\ Overlaps(txs[n].call, d)
               THEN txs[n].amount ELSE 0

\* the payer's funds as they would be had d run alone
AloneFunds(f, d) == [t \in Tokens |-> f[t] + TakenFrom(d, t, Len(txs))]

\* call d is answered at fee estimation: its transfer is not submitted
EstimateFails(d) ==
    /\ calls[d].pc = "settle"
    /\ calls'[d].pc = "done"
    /\ calls'[d].res.error = "Fee estimation failed"

\* call d takes its step up to account.execute with a payload that passes
\* the route's early returns and funds on the ledger that cover its amount
SubmitsFunded(d) ==
    /\ calls[d].pc = "settle"
    /\ calls'[d] # calls[d]
    /\ SettlePrecheck(calls[d].hdr, TRUE) = ""
    /\ calls[d].hdr.amount < U128
    /\ CanTransfer(bal, allow, calls[d].hdr.token, calls[d].hdr.amount)

C29_SettleReturns ==
    \A c \in CallId : (calls[c].pc = "waiting") ~> (calls[c].pc = "done")

\* ----------------------------------------------------------------- amounts
\* the requests answered by a gateway configured with a price in cents
Priced == {c \in Answered : calls[c].price # 0}

\* C30: the amount a gateway requires is the configured price exactly: no
\* rounding happens between the price and maxAmountRequired.
C30_RequiredAmountIsThePrice ==
    \A c \in Priced :
        calls[c].req.maxAmountRequired * 100 * UsdPerEth = calls[c].price * WeiPerEth

\* ---------------------------------------------------------------- deadlines
\* call c hands its transfer to account.execute in this step
Submits(c) == calls[c].pc = "settle" /\ calls'[c].pc = "waiting"

\* C31: settle never submits a transfer for a payload whose deadline is
\* earlier than the time of submission, even if the payload passed verify
\* before its deadline.
C31_NoSubmissionAfterDeadline ==
    [][\A c \in CallId : Submits(c) => calls[c].hdr.deadline >= now]_vars

\* ------------------------------------------------- Express facilitator settle
\* the finished calls to the Express facilitator's /settle
ExpressSettles == {c \in CallId : calls[c].kind = "xsettle" /\ calls[c].pc = "done"}

\* C32: FacilitatorServer.handleSettle invokes the settler only if
\* verifyPayment returned isValid:true for the payload and requirements of
\* the call; an invalid payload is answered success:false with the
\* verification reason and without a settlement attempt.
C32_SettlerOnlyAfterVerify ==
    \A c \in ExpressSettles :
        /\ calls[c].settler => (calls[c].hdr.enc = "ok" /\ calls[c].ver.isValid)
        /\ (calls[c].hdr.enc = "ok" /\ ~calls[c].ver.isValid) =>
              /\ ~calls[c].res.success
              /\ calls[c].res.error = calls[c].ver.invalidReason
              /\ calls[c].res.txHash = 0
              /\ ~calls[c].settler
              /\ calls[c].tx = 0

\* the settler has been invoked for a payload that verifyPayment accepted
C32_Witness ==
    \E c \in ExpressSettles :
        /\ calls[c].settler
        /\ calls[c].ver.isValid
        /\ calls[c].res.error = "Facilitator account not initialized"

\* ----------------------------------------------------------------- networks
\* C33: verify and settle agree on the networks they accept: settle never
\* refuses as an unsupported network a payload that verify accepted for the
\* same requirements.
C33_NetworksAgree ==
    \A c \in CallId :
        (calls[c].kind = "gateway" /\ calls[c].ver.isValid)
            => calls[c].res.error # "Unsupported network"

\* ------------------------------------------------------- PaymentProcessor
\* execute_payment returns true for payer a and nonce n in this step
PaidNow(a, n) == pp'.paid[a, n] > pp.paid[a, n]

\* C34: execute_payment returns true at most once for a given payer and
\* nonce: a successful execution with nonce n sets the payer's nonce to
\* n + 1, and every later verify_payment or execute_payment with nonce n
\* returns false.
C34_ExecutedAtMostOnce ==
    /\ [](\A a \in Accounts, n \in 0..MaxNonce :
             /\ pp.paid[a, n] <= 1
             /\ pp.paid[a, n] = 1 => pp.nonces[a] > n)
    /\ [][\A a \in Accounts, n \in 0..MaxNonce :
             /\ PaidNow(a, n) => pp'.nonces[a] = n + 1
             /\ (pp.paid[a, n] >= 1 /\ pp'.last # pp.last
                   /\ pp'.last.from = a /\ pp'.last.nonce = n)
                  => ~pp'.last.ret]_vars

\* a payment of the payer has been executed with nonce 0 and a later
\* execute_payment with nonce 0 has returned false
C34_Witness ==
    /\ pp.paid[Payer, 0] = 1
    /\ pp.nonces[Payer] = 1
    /\ pp.last = Returned("execute_payment", [from |-> Payer, nonce |-> 0], FALSE)

\* C35: execute_payment changes nonces and executed_payments only when the
\* payment is actually transferred: a call that moves no tokens out of the
\* payer's balance leaves the payer's nonce and the payment's executed mark
\* as they were before the call.
C35_MarkedOnlyWhenTransferred ==
    [][(pp'.nonces # pp.nonces \/ pp'.executed_payments # pp.executed_payments)
          => \E t \in Tokens : bal'[t] < bal[t]]_vars

\* ---------------------------------------------------------------- the client
\* C36: the client signs and sends a payment only after a 402 response to
\* the request without payment, and sends at most one paid request per call:
\* whatever status answers the paid request, the call ends with that answer
\* and no further payment is signed.
C36_OnePaidRetry ==
    /\ [](/\ cl.signedNow <= 1
          /\ cl.paidRequests = cl.signedNow
          /\ cl.requests <= 2
          /\ cl.signedNow = 1 => cl.status = 402)
    /\ [][(cl.pc = "paid" /\ cl' # cl)
            => /\ cl'.pc = "done"
               /\ cl'.result.status = cl'.paid
               /\ cl'.signed = cl.signed
               /\ cl'.requests = cl.requests]_vars

\* a paid request has been answered 402 and the call has ended with one
\* payment signed
C36_Witness ==
    /\ cl.pc = "done"
    /\ cl.paid = 402
    /\ cl.result.status = 402
    /\ ~cl.result.success
    /\ cl.signedNow = 1
    /\ cl.paidRequests = 1

\* C37: distinct payments created by the client for the same payer carry
\* distinct nonces.
C37_DistinctNonces ==
    \A j, k \in 1..Len(cl.signed) :
        (j # k /\ cl.signed[j].from = cl.signed[k].from)
            => cl.signed[j].nonce # cl.signed[k].nonce
====
